---- MODULE Spec2Model ----
(***************************************************************************)
(* The post router of beam (src/server/routers/post.ts) over a Prisma      *)
(* store, and the editor helpers (markdownToHtml, getSuggestionData,       *)
(* uploadImageCommandHandler).                                             *)
(*                                                                         *)
(* Every procedure is split at its awaits on the store: one action per     *)
(* store call, so that calls of different requests interleave the way the  *)
(* event loop lets them.  A request that has passed its first store call   *)
(* and waits for the next one sits in the bag `pending`.                   *)
(*                                                                         *)
(* The editor helpers run in the browser on a textarea of their own; each  *)
(* has its specification (SpecRender, SpecSuggest, SpecUpload) over the    *)
(* variable `ed`, with the router at rest.                                 *)
(***************************************************************************)
EXTENDS Bags, FiniteSets, Integers, Sequences, TLC

\* ---------------------------------------------------------------- bounds
MaxPosts == 2       \* ids the store hands out
MaxInflight == 2    \* requests between two of their store calls
MaxLikes == 2       \* distinct (post, user) keys in likedPosts
MaxCalls == 3       \* procedure calls issued in one behaviour
MaxLen == 3         \* tokens of a markdown text, characters of a typed text
MaxFiles == 2       \* files of one drop or paste

\* ------------------------------------------------------- program constants
DefaultTake == 50
SearchTake == 10

\* ------------------------------------------------------------ environment
Users == {"alice", "admin"}
Ids == 1..MaxPosts

\* optional values: z.optional() / undefined
None == <<>>
Some(x) == <<x>>

\* title and content are token sequences; "nl" is a single newline,
\* "<script>" and "onclick=" stand for raw HTML embedded in the markdown
PostInputs ==
  { [title |-> <<"cat">>, content |-> <<"cat", "nl", "dog">>],
    [title |-> <<"dog">>, content |-> <<"<script>", "cat", "onclick=">>] }

FeedInputs ==
  { [take |-> None, skip |-> None, authorId |-> None],
    [take |-> Some(1), skip |-> Some(1), authorId |-> Some("alice")] }

Queries == {"cat", "dog"}

\* inputs the zod schemas refuse
InvalidPostInputs ==
  { [title |-> <<>>, content |-> <<"cat">>],
    [title |-> <<"cat">>, content |-> <<>>] }

InvalidFeedInputs ==
  { [take |-> Some(0), skip |-> None, authorId |-> None],
    [take |-> Some(51), skip |-> None, authorId |-> None] }

InvalidQueries == {""}

Upstreams == {"ok", "fail"}

VARIABLES
  posts,     \* table Post: live id -> row
  nextId,    \* the autoincrement of Post.id (also the creation clock)
  likes,     \* table LikedPosts: rows in creation order
  pending,   \* bag of requests waiting for their next store call
  ncalls,    \* calls issued so far
  last,      \* the call that last wrote to the store or returned
  pre,       \* the store right before that step
  ed         \* the editor: the textarea and what runs on it

routerVars == <<posts, nextId, likes, pending, ncalls, last, pre>>

vars == <<posts, nextId, likes, pending, ncalls, last, pre, ed>>

\* ---------------------------------------------------------------- results
Ok(v) == [kind |-> "ok", value |-> v]
TRPCError(code, message) == [kind |-> "error", code |-> code, message |-> message]
PrismaError(code) == [kind |-> "error", code |-> "PRISMA", message |-> [text |-> code]]

\* what tRPC throws when the input does not parse
BadRequest == TRPCError("BAD_REQUEST", [text |-> "ZodError"])

\* ----------------------------------------------------------- input schemas
\* take: z.number().min(1).max(50).optional(), skip: z.number().min(1).optional()
feedInputValid(input) ==
  /\ (input.take = None \/ (input.take[1] >= 1 /\ input.take[1] <= 50))
  /\ (input.skip = None \/ input.skip[1] >= 1)

\* query: z.string().min(1)
searchInputValid(query) == query # ""

\* title: z.string().min(1), content: z.string().min(1)
addInputValid(input) == Len(input.title) >= 1 /\ Len(input.content) >= 1

\* an edit whose input is not parsed
editInputValid_Any(data) == TRUE

editInputValid(data) == Len(data.title) >= 1 /\ Len(data.content) >= 1

\* ------------------------------------------------------------- the context
isUserAdmin(u) == u = "admin"

\* --------------------------------------------------------------- rendering
Dangerous == {"<script>", "onclick="}

markedParse(md) ==
  <<"<p>">> \o [i \in 1..Len(md) |-> IF md[i] = "nl" THEN "<br>" ELSE md[i]]
            \o <<"</p>">>

DOMPurifySanitize(html) == SelectSeq(html, LAMBDA t : t \notin Dangerous)

\* the output of marked returned as it is
markdownToHtml_Unsanitized(markdown) == markedParse(markdown)

markdownToHtml(markdown) == DOMPurifySanitize(markedParse(markdown))

\* ------------------------------------------------------------ store helpers
Exists(P, id) == id \in DOMAIN P

Insert(P, row) == [i \in DOMAIN P \cup {row.id} |-> IF i = row.id THEN row ELSE P[i]]

Remove(P, id) == [i \in DOMAIN P \ {id} |-> P[i]]

Update(P, id, data) ==
  [P EXCEPT ![id] = [f \in DOMAIN P[id] |->
      IF f \in DOMAIN data THEN data[f] ELSE P[id][f]]]

HasLike(L, postId, userId) ==
  \E i \in 1..Len(L) : L[i].postId = postId /\ L[i].userId = userId

LikeKeys(L) == {L[i] : i \in 1..Len(L)}

\* onDelete: Cascade of LikedPosts.post
CascadeLikes(L, postId) == SelectSeq(L, LAMBDA r : r.postId # postId)

\* column defaults of model Post
PostDefaults(id) == [id |-> id, createdAt |-> id, hidden |-> FALSE]

\* likedBy: { orderBy: { createdAt: 'asc' }, select: { user } }
RECURSIVE likedBy(_, _)
likedBy(L, postId) ==
  IF L = <<>> THEN <<>>
  ELSE (IF Head(L).postId = postId THEN <<Head(L).userId>> ELSE <<>>)
       \o likedBy(Tail(L), postId)

Min(a, b) == IF a < b THEN a ELSE b

\* -------------------------------------------------------------------- feed
\* the feed without its visibility filter
feedWhere_Unfiltered(caller, input) == [hidden |-> None, authorId |-> input.authorId]

\* where = { hidden: ctx.isUserAdmin ? undefined : false, authorId }
feedWhere(caller, input) ==
  [hidden |-> IF isUserAdmin(caller) THEN None ELSE Some(FALSE),
   authorId |-> input.authorId]

\* Prisma: a condition that is undefined does not filter
MatchesWhere(p, where) ==
  /\ (where.hidden = None \/ p.hidden = where.hidden[1])
  /\ (where.authorId = None \/ p.authorId = where.authorId[1])

Matching(P, where) == {id \in DOMAIN P : MatchesWhere(P[id], where)}

RECURSIVE orderByCreatedAtDesc(_, _)
orderByCreatedAtDesc(P, S) ==
  IF S = {} THEN <<>>
  ELSE LET m == CHOOSE i \in S : \A j \in S : P[j].createdAt <= P[i].createdAt
       IN  <<m>> \o orderByCreatedAtDesc(P, S \ {m})

feedSelect(P, L, id) ==
  [id |-> id, title |-> P[id].title, contentHtml |-> P[id].contentHtml,
   createdAt |-> P[id].createdAt, hidden |-> P[id].hidden,
   author |-> [id |-> P[id].authorId], likedBy |-> likedBy(L, id)]

feedTake(input) == IF input.take = None THEN DefaultTake ELSE input.take[1]

feedSkip(input) == IF input.skip = None THEN 0 ELSE input.skip[1]

feedFindMany(P, L, caller, input) ==
  LET all == orderByCreatedAtDesc(P, Matching(P, feedWhere(caller, input)))
      from == feedSkip(input) + 1
      to == Min(Len(all), feedSkip(input) + feedTake(input))
  IN  [i \in 1..(IF to < from THEN 0 ELSE to - from + 1) |->
         feedSelect(P, L, all[from + i - 1])]

\* a count that leaves out the where of the page
feedCount_NoWhere(P, caller, input) == Cardinality(DOMAIN P)

feedCount(P, caller, input) == Cardinality(Matching(P, feedWhere(caller, input)))

\* ------------------------------------------------------------------ detail
\* post?.author.id === ctx.session.user.id
postBelongsToUser(P, id, caller) == Exists(P, id) /\ P[id].authorId = caller

detailSelect(P, L, id) ==
  [id |-> id, title |-> P[id].title, content |-> P[id].content,
   contentHtml |-> P[id].contentHtml, createdAt |-> P[id].createdAt,
   hidden |-> P[id].hidden, author |-> [id |-> P[id].authorId],
   likedBy |-> likedBy(L, id)]

NotFound(id) == TRPCError("NOT_FOUND", [text |-> "No post with id", id |-> id])

\* the check without the author's exemption
detailDenied_NoOwner(P, id, caller) ==
  ~Exists(P, id) \/ (P[id].hidden /\ ~isUserAdmin(caller))

detailDenied(P, id, caller) ==
  \/ ~Exists(P, id)
  \/ (P[id].hidden /\ ~postBelongsToUser(P, id, caller) /\ ~isUserAdmin(caller))

detail(P, L, caller, id) ==
  IF detailDenied(P, id, caller) THEN NotFound(id)
  ELSE Ok([post |-> detailSelect(P, L, id)])

\* ------------------------------------------------------------------ search
\* full-text search of one term: the term is a word of the text
Matches(text, query) == \E i \in 1..Len(text) : text[i] = query

\* a search that wants the term in each of the two columns
searchWhere_EachColumn(p, query) ==
  /\ p.hidden = FALSE
  /\ Matches(p.title, query)
  /\ Matches(p.content, query)

\* title: { search }, content: { search } with one and the same query: Prisma
\* folds the two into one match over both columns,
\* MATCH (title, content) AGAINST (query)
searchWhere(p, query) ==
  /\ p.hidden = FALSE
  /\ Matches(p.title \o p.content, query)

searchSelect(P, id) == [id |-> id, title |-> P[id].title]

\* no orderBy: the store picks which rows fill the page
searchFindMany(P, query) ==
  LET m == {id \in DOMAIN P : searchWhere(P[id], query)}
      n == Min(SearchTake, Cardinality(m))
  IN  {{searchSelect(P, id) : id \in S} : S \in {T \in SUBSET m : Cardinality(T) = n}}

\* ---------------------------------------------------------------- add, edit
postCreateData(caller, input, id) ==
  [id |-> id, title |-> input.title, content |-> input.content,
   contentHtml |-> markdownToHtml(input.content),
   createdAt |-> PostDefaults(id).createdAt, hidden |-> PostDefaults(id).hidden,
   authorId |-> caller]

\* a poster that lets the webhook's failure through
postToSlackIfEnabled_Rejects(upstream) ==
  IF upstream = "fail" THEN "rejected" ELSE "resolved"

\* lib/slack: resolves whether or not the webhook could be reached
postToSlackIfEnabled(upstream) == "resolved"

\* await postToSlackIfEnabled(...); return post
addReturn(post, settled) ==
  IF settled = "rejected"
  THEN TRPCError("INTERNAL_SERVER_ERROR", [text |-> "fetch failed"])
  ELSE Ok([post |-> post])

Forbidden == TRPCError("FORBIDDEN", [text |-> "FORBIDDEN"])

\* an ownership check that lets a moderator through
editDenied_AdminMayEdit(P, id, caller) ==
  ~postBelongsToUser(P, id, caller) /\ ~isUserAdmin(caller)

\* if (!postBelongsToUser) throw FORBIDDEN
editDenied(P, id, caller) == ~postBelongsToUser(P, id, caller)

deleteDenied_AdminMayDelete(P, id, caller) ==
  ~postBelongsToUser(P, id, caller) /\ ~isUserAdmin(caller)

deleteDenied(P, id, caller) == ~postBelongsToUser(P, id, caller)

\* an update that forgets to re-render
postUpdateData_StaleHtml(data) == [title |-> data.title, content |-> data.content]

postUpdateData(data) ==
  [title |-> data.title, content |-> data.content,
   contentHtml |-> markdownToHtml(data.content)]

\* -------------------------------------------------------------- like, unlike
\* a create on a table without the (postId, userId) key
likedPostsCreate_NoUnique(P, L, postId, userId) ==
  IF ~Exists(P, postId) THEN [likes |-> L, outcome |-> PrismaError("P2025")]
  ELSE [likes |-> Append(L, [postId |-> postId, userId |-> userId]),
        outcome |-> Ok([id |-> postId])]

likedPostsCreate(P, L, postId, userId) ==
  IF ~Exists(P, postId) THEN [likes |-> L, outcome |-> PrismaError("P2025")]
  ELSE IF HasLike(L, postId, userId)
  THEN [likes |-> L, outcome |-> PrismaError("P2002")]
  ELSE [likes |-> Append(L, [postId |-> postId, userId |-> userId]),
        outcome |-> Ok([id |-> postId])]

\* deleteMany in place of delete: nothing to remove is no error
likedPostsDelete_Many(L, postId, userId) ==
  [likes |-> SelectSeq(L, LAMBDA r : ~(r.postId = postId /\ r.userId = userId)),
   outcome |-> Ok([id |-> postId])]

likedPostsDelete(L, postId, userId) ==
  IF ~HasLike(L, postId, userId) THEN [likes |-> L, outcome |-> PrismaError("P2025")]
  ELSE [likes |-> SelectSeq(L, LAMBDA r : ~(r.postId = postId /\ r.userId = userId)),
        outcome |-> Ok([id |-> postId])]

\* ------------------------------------------------------------- hide, unhide
\* hide without its role check
hideDenied_Nobody(caller) == FALSE

hideDenied(caller) == ~isUserAdmin(caller)

unhideDenied(caller) == ~isUserAdmin(caller)

hideData == [hidden |-> TRUE]

\* unhide pasted from hide with the flag left as it was
unhideData_Pasted == [hidden |-> TRUE]

unhideData == [hidden |-> FALSE]

\* prisma.post.update({ where: { id }, data, select: { id: true } })
postUpdateSelectId(P, id, data) ==
  IF Exists(P, id)
  THEN [posts |-> Update(P, id, data), outcome |-> Ok([id |-> id])]
  ELSE [posts |-> P, outcome |-> PrismaError("P2025")]

\* ----------------------------------------------------------------- actions
RouterInit ==
  /\ posts = <<>>
  /\ nextId = 1
  /\ likes = <<>>
  /\ pending = EmptyBag
  /\ ncalls = 0
  /\ last = [op |-> "none"]
  /\ pre = [posts |-> <<>>, likes |-> <<>>]

Init == RouterInit /\ ed = [view |-> "none"]

\* a procedure is called
Begin == ncalls < MaxCalls /\ ncalls' = ncalls + 1 /\ ed' = ed

\* the request suspends on its next store call
Await(r) ==
  /\ BagCardinality(pending) < MaxInflight
  /\ pending' = pending (+) SetToBag({r})

Resume(r) == pending' = pending (-) SetToBag({r}) /\ ed' = ed

Waiting(op) == {r \in BagToSet(pending) : r.op = op}

\* the procedure returns or throws (outcome "pending": it wrote and goes on)
Complete(op, caller, args, outcome) ==
  /\ last' = [op |-> op, caller |-> caller, args |-> args, outcome |-> outcome]
  /\ pre' = [posts |-> posts, likes |-> likes]

\* feed: prisma.post.findMany
FeedFindMany(caller, input) ==
  /\ Begin
  /\ IF ~feedInputValid(input)
     THEN /\ Complete("feed", caller, [input |-> input], BadRequest)
          /\ UNCHANGED pending
     ELSE /\ Await([op |-> "feed", caller |-> caller, input |-> input,
                    posts |-> feedFindMany(posts, likes, caller, input)])
          /\ UNCHANGED <<last, pre>>
  /\ UNCHANGED <<posts, nextId, likes>>

\* feed: prisma.post.count, return
FeedCount(r) ==
  /\ Resume(r)
  /\ Complete("feed", r.caller, [input |-> r.input],
              Ok([posts |-> r.posts,
                  postCount |-> feedCount(posts, r.caller, r.input)]))
  /\ UNCHANGED <<posts, nextId, likes, ncalls>>

Detail(caller, id) ==
  /\ Begin
  /\ Complete("detail", caller, [id |-> id], detail(posts, likes, caller, id))
  /\ UNCHANGED <<posts, nextId, likes, pending>>

Search(caller, query) ==
  /\ Begin
  /\ IF ~searchInputValid(query)
     THEN Complete("search", caller, [query |-> query], BadRequest)
     ELSE \E found \in searchFindMany(posts, query) :
            Complete("search", caller, [query |-> query], Ok([posts |-> found]))
  /\ UNCHANGED <<posts, nextId, likes, pending>>

\* add: prisma.post.create
AddCreate(caller, input) ==
  /\ Begin
  /\ IF ~addInputValid(input)
     THEN /\ Complete("add", caller, [input |-> input], BadRequest)
          /\ UNCHANGED <<posts, nextId, pending>>
     ELSE /\ nextId <= MaxPosts
          /\ LET post == postCreateData(caller, input, nextId)
             IN  /\ posts' = Insert(posts, post)
                 /\ Await([op |-> "add", caller |-> caller, input |-> input,
                           post |-> post])
                 /\ Complete("add", caller, [input |-> input],
                             [kind |-> "pending", value |-> [post |-> post]])
          /\ nextId' = nextId + 1
  /\ UNCHANGED likes

\* add: await postToSlackIfEnabled, return
AddNotify(r, upstream) ==
  /\ Resume(r)
  /\ Complete("add", r.caller, [input |-> r.input, upstream |-> upstream],
              addReturn(r.post, postToSlackIfEnabled(upstream)))
  /\ UNCHANGED <<posts, nextId, likes, ncalls>>

\* edit: prisma.post.findUnique and the ownership check
EditFindUnique(caller, id, data) ==
  /\ Begin
  /\ IF ~editInputValid(data)
     THEN /\ Complete("edit", caller, [id |-> id, data |-> data], BadRequest)
          /\ UNCHANGED pending
     ELSE IF editDenied(posts, id, caller)
     THEN /\ Complete("edit", caller, [id |-> id, data |-> data], Forbidden)
          /\ UNCHANGED pending
     ELSE /\ Await([op |-> "edit", caller |-> caller, id |-> id, data |-> data])
          /\ UNCHANGED <<last, pre>>
  /\ UNCHANGED <<posts, nextId, likes>>

\* edit: prisma.post.update, return
\* an update that creates the row it does not find
EditUpdate_Upsert(r) ==
  /\ Resume(r)
  /\ posts' = IF Exists(posts, r.id)
              THEN Update(posts, r.id, postUpdateData(r.data))
              ELSE Insert(posts, postCreateData(r.caller, r.data, r.id))
  /\ Complete("edit", r.caller, [id |-> r.id, data |-> r.data],
              Ok([post |-> posts'[r.id]]))
  /\ UNCHANGED <<nextId, likes, ncalls>>

EditUpdate(r) ==
  /\ Resume(r)
  /\ IF Exists(posts, r.id)
     THEN /\ posts' = Update(posts, r.id, postUpdateData(r.data))
          /\ Complete("edit", r.caller, [id |-> r.id, data |-> r.data],
                      Ok([post |-> posts'[r.id]]))
     ELSE /\ Complete("edit", r.caller, [id |-> r.id, data |-> r.data],
                      PrismaError("P2025"))
          /\ UNCHANGED posts
  /\ UNCHANGED <<nextId, likes, ncalls>>

\* delete: prisma.post.findUnique and the ownership check
DeleteFindUnique(caller, id) ==
  /\ Begin
  /\ IF deleteDenied(posts, id, caller)
     THEN /\ Complete("delete", caller, [id |-> id], Forbidden)
          /\ UNCHANGED pending
     ELSE /\ Await([op |-> "delete", caller |-> caller, id |-> id])
          /\ UNCHANGED <<last, pre>>
  /\ UNCHANGED <<posts, nextId, likes>>

\* delete: prisma.post.delete, return
DeleteDelete(r) ==
  /\ Resume(r)
  /\ IF Exists(posts, r.id)
     THEN /\ posts' = Remove(posts, r.id)
          /\ likes' = CascadeLikes(likes, r.id)
          /\ Complete("delete", r.caller, [id |-> r.id], Ok([id |-> r.id]))
     ELSE /\ Complete("delete", r.caller, [id |-> r.id], PrismaError("P2025"))
          /\ UNCHANGED <<posts, likes>>
  /\ UNCHANGED <<nextId, ncalls>>

Like(caller, id) ==
  /\ Begin
  /\ Cardinality(LikeKeys(likes) \cup {[postId |-> id, userId |-> caller]}) <= MaxLikes
  /\ LET r == likedPostsCreate(posts, likes, id, caller)
     IN  /\ likes' = r.likes
         /\ Complete("like", caller, [id |-> id], r.outcome)
  /\ UNCHANGED <<posts, nextId, pending>>

Unlike(caller, id) ==
  /\ Begin
  /\ LET r == likedPostsDelete(likes, id, caller)
     IN  /\ likes' = r.likes
         /\ Complete("unlike", caller, [id |-> id], r.outcome)
  /\ UNCHANGED <<posts, nextId, pending>>

Hide(caller, id) ==
  /\ Begin
  /\ IF hideDenied(caller)
     THEN /\ Complete("hide", caller, [id |-> id], Forbidden)
          /\ UNCHANGED posts
     ELSE LET r == postUpdateSelectId(posts, id, hideData)
          IN  /\ posts' = r.posts
              /\ Complete("hide", caller, [id |-> id], r.outcome)
  /\ UNCHANGED <<nextId, likes, pending>>

Unhide(caller, id) ==
  /\ Begin
  /\ IF unhideDenied(caller)
     THEN /\ Complete("unhide", caller, [id |-> id], Forbidden)
          /\ UNCHANGED posts
     ELSE LET r == postUpdateSelectId(posts, id, unhideData)
          IN  /\ posts' = r.posts
              /\ Complete("unhide", caller, [id |-> id], r.outcome)
  /\ UNCHANGED <<nextId, likes, pending>>

Next ==
  \/ \E c \in Users, i \in FeedInputs \cup InvalidFeedInputs : FeedFindMany(c, i)
  \/ \E r \in Waiting("feed") : FeedCount(r)
  \/ \E c \in Users, id \in Ids : Detail(c, id)
  \/ \E c \in Users, q \in Queries \cup InvalidQueries : Search(c, q)
  \/ \E c \in Users, i \in PostInputs \cup InvalidPostInputs : AddCreate(c, i)
  \/ \E r \in Waiting("add"), u \in Upstreams : AddNotify(r, u)
  \/ \E c \in Users, id \in Ids, d \in PostInputs \cup InvalidPostInputs :
       EditFindUnique(c, id, d)
  \/ \E r \in Waiting("edit") : EditUpdate(r)
  \/ \E c \in Users, id \in Ids : DeleteFindUnique(c, id)
  \/ \E r \in Waiting("delete") : DeleteDelete(r)
  \/ \E c \in Users, id \in Ids : Like(c, id)
  \/ \E c \in Users, id \in Ids : Unlike(c, id)
  \/ \E c \in Users, id \in Ids : Hide(c, id)
  \/ \E c \in Users, id \in Ids : Unhide(c, id)

Spec == Init /\ [][Next]_vars

\* ------------------------------------------------------------------ properties
Returned(op) == last.op = op /\ last.outcome.kind # "pending"

IsAuthor(P, id, c) == id \in DOMAIN P /\ P[id].authorId = c

\* C1: feed called by a non-admin caller and search called by any caller
\* return no post whose hidden flag is true, in every reachable state.
C1_HiddenNeverListed ==
  /\ \A c \in Users, i \in FeedInputs :
       ~isUserAdmin(c) =>
         LET page == feedFindMany(posts, likes, c, i)
         IN  \A k \in 1..Len(page) : ~page[k].hidden /\ ~posts[page[k].id].hidden
  /\ \A q \in Queries : \A found \in searchFindMany(posts, q) :
       \A r \in found : ~posts[r.id].hidden
  /\ (Returned("feed") /\ last.outcome.kind = "ok" /\ ~isUserAdmin(last.caller)) =>
       \A k \in 1..Len(last.outcome.value.posts) : ~last.outcome.value.posts[k].hidden
  /\ (Returned("search") /\ last.outcome.kind = "ok") =>
       \A r \in last.outcome.value.posts : ~pre.posts[r.id].hidden

\* a non-admin author listed the feed while their post was hidden, and
\* got nothing
C1_Witness ==
  /\ Returned("feed")
  /\ last.outcome.kind = "ok"
  /\ last.caller = "alice"
  /\ last.args.input.authorId = None
  /\ last.outcome.value.posts = <<>>
  /\ last.outcome.value.postCount = 0
  /\ \E id \in DOMAIN posts : posts[id].hidden /\ posts[id].authorId = "alice"

\* C2: detail(id) fails with NotFound exactly when no post with that id
\* exists or the post is hidden and the caller is neither its author nor an
\* admin; otherwise it returns the post.  The NotFound for a hidden post is
\* the one an id with no post gets.
C2_Hides(P, c, id) ==
  id \notin DOMAIN P \/ (P[id].hidden /\ P[id].authorId # c /\ c # "admin")

C2_Answer(P, L, c, id, out) ==
  IF C2_Hides(P, c, id)
  THEN /\ out.kind = "error"
       /\ out.code = "NOT_FOUND"
       /\ out = detail(Remove(P, id), CascadeLikes(L, id), c, id)
  ELSE /\ out.kind = "ok"
       /\ out.value.post.id = id
       /\ out.value.post.title = P[id].title
       /\ out.value.post.content = P[id].content
       /\ out.value.post.contentHtml = P[id].contentHtml
       /\ out.value.post.hidden = P[id].hidden
       /\ out.value.post.author.id = P[id].authorId

C2_DetailNotFound ==
  /\ \A c \in Users, id \in Ids :
       C2_Answer(posts, likes, c, id, detail(posts, likes, c, id))
  /\ Returned("detail") =>
       C2_Answer(pre.posts, pre.likes, last.caller, last.args.id, last.outcome)

\* a caller who is neither author nor admin asked for a hidden post
C2_Witness ==
  /\ Returned("detail")
  /\ last.outcome.kind = "error"
  /\ last.args.id \in DOMAIN posts
  /\ posts[last.args.id].hidden
  /\ last.caller = "alice"
  /\ posts[last.args.id].authorId = "admin"

\* C3: edit called by anyone who is not the post's author (an admin who is
\* not the author, a call on an id with no post) fails with Forbidden and
\* leaves the store unchanged.
C3_Step ==
  \A c \in Users, id \in Ids, d \in PostInputs :
    (EditFindUnique(c, id, d) /\ ~IsAuthor(posts, id, c)) =>
      /\ last' = [op |-> "edit", caller |-> c, args |-> [id |-> id, data |-> d],
                  outcome |-> Forbidden]
      /\ posts' = posts
      /\ likes' = likes
      /\ pending' = pending

C3_EditForbidden == [][C3_Step]_vars

\* an admin was refused the edit of someone else's post
C3_Witness ==
  /\ Returned("edit")
  /\ last.outcome = Forbidden
  /\ last.caller = "admin"
  /\ last.args.id \in DOMAIN posts
  /\ posts[last.args.id].authorId = "alice"
  /\ posts = pre.posts

\* C4: delete(id) removes the post only when the caller is its author: any
\* other call fails with Forbidden and changes nothing; the author's delete
\* returns the id and afterwards no post with that id exists.
C4_Step ==
  /\ \A c \in Users, id \in Ids :
       (DeleteFindUnique(c, id) /\ ~IsAuthor(posts, id, c)) =>
         /\ last' = [op |-> "delete", caller |-> c, args |-> [id |-> id],
                     outcome |-> Forbidden]
         /\ posts' = posts
         /\ likes' = likes
         /\ pending' = pending
  /\ \A r \in Waiting("delete") :
       (DeleteDelete(r) /\ r.id \in DOMAIN posts) =>
         /\ last'.outcome = Ok([id |-> r.id])
         /\ r.id \notin DOMAIN posts'
         /\ \A id \in DOMAIN posts \ {r.id} : id \in DOMAIN posts' /\ posts'[id] = posts[id]
  /\ \A id \in DOMAIN posts \ DOMAIN posts' :
       /\ last'.op = "delete"
       /\ last'.args.id = id
       /\ last'.caller = posts[id].authorId
       /\ last'.outcome = Ok([id |-> id])

C4_DeleteByAuthorOnly == [][C4_Step]_vars

\* the author deleted their post
C4_Witness ==
  /\ Returned("delete")
  /\ last.outcome.kind = "ok"
  /\ IsAuthor(pre.posts, last.args.id, last.caller)
  /\ last.args.id \notin DOMAIN posts

\* C5: a post's hidden flag changes only through hide or unhide called by an
\* admin; a non-admin's hide/unhide fails with Forbidden and leaves the flag;
\* a newly added post has hidden = false.
C5_Step ==
  /\ \A id \in DOMAIN posts \cap DOMAIN posts' :
       posts'[id].hidden # posts[id].hidden =>
         /\ last'.op = IF posts'[id].hidden THEN "hide" ELSE "unhide"
         /\ last'.caller = "admin"
         /\ last'.args.id = id
         /\ last'.outcome = Ok([id |-> id])
  /\ \A c \in Users, id \in Ids :
       ((Hide(c, id) \/ Unhide(c, id)) /\ c # "admin") =>
         /\ last'.outcome = Forbidden
         /\ posts' = posts
  /\ \A id \in DOMAIN posts' \ DOMAIN posts : posts'[id].hidden = FALSE

C5_HiddenOnlyByAdmin == [][C5_Step]_vars

\* the author, who is no admin, was refused the hide of their own post
C5_Witness ==
  /\ Returned("hide")
  /\ last.outcome = Forbidden
  /\ last.caller = "alice"
  /\ IsAuthor(posts, last.args.id, "alice")
  /\ ~posts[last.args.id].hidden

\* C6: in every reachable state, under every interleaving of add, edit, hide
\* and unhide, each stored post has contentHtml = render(content); content
\* and contentHtml are written together and only by add and edit.
C6_NoDrift ==
  /\ \A id \in DOMAIN posts :
       posts[id].contentHtml = markdownToHtml(posts[id].content)
  /\ \A id \in DOMAIN posts \cap DOMAIN pre.posts :
       (\/ posts[id].content # pre.posts[id].content
        \/ posts[id].contentHtml # pre.posts[id].contentHtml) =>
         /\ Returned("edit")
         /\ last.args.id = id
         /\ last.outcome.kind = "ok"
         /\ posts[id].content = last.args.data.content
  /\ \A id \in DOMAIN posts \ DOMAIN pre.posts :
       /\ last.op = "add"
       /\ posts[id].content = last.args.input.content

\* an edit whose write landed on a post hidden meanwhile changed its content
C6_Witness ==
  /\ Returned("edit")
  /\ last.outcome.kind = "ok"
  /\ posts[last.args.id].hidden
  /\ posts[last.args.id].content # pre.posts[last.args.id].content
  /\ posts[last.args.id].contentHtml # pre.posts[last.args.id].contentHtml
  /\ posts[last.args.id].contentHtml # posts[last.args.id].content

\* C7: at most one Like exists per (post, user) pair in every reachable
\* state; of two like(id) calls by the same user on the same post the first
\* succeeds and the second fails, leaving the Like set unchanged.
C7_OneLikePerPair ==
  /\ \A i, j \in 1..Len(likes) : likes[i] = likes[j] => i = j
  /\ Returned("like") =>
       LET key == [postId |-> last.args.id, userId |-> last.caller]
       IN  IF key \in LikeKeys(pre.likes)
           THEN last.outcome.kind = "error" /\ likes = pre.likes
           ELSE last.args.id \in DOMAIN pre.posts =>
                  /\ last.outcome = Ok([id |-> last.args.id])
                  /\ likes = Append(pre.likes, key)

\* the second like of the same user on the same post was refused
C7_Witness ==
  /\ Returned("like")
  /\ last.outcome.kind = "error"
  /\ last.args.id \in DOMAIN posts
  /\ [postId |-> last.args.id, userId |-> last.caller] \in LikeKeys(pre.likes)
  /\ Len(likes) = 1

\* C8: unlike(id) fails when the caller has no Like on that post and then
\* leaves the Like set unchanged; otherwise it removes exactly the caller's
\* Like on that post, so like followed by unlike by the same caller restores
\* the Like set that held before the like.
C8_Step ==
  \A c \in Users, id \in Ids :
    Unlike(c, id) =>
      LET key == [postId |-> id, userId |-> c]
      IN  IF key \notin LikeKeys(likes)
          THEN last'.outcome.kind = "error" /\ likes' = likes
          ELSE /\ last'.outcome = Ok([id |-> id])
               /\ LikeKeys(likes') = LikeKeys(likes) \ {key}
               /\ Len(likes') = Len(likes) - 1
               /\ (Returned("like") /\ last.outcome.kind = "ok"
                     /\ last.caller = c /\ last.args.id = id) => likes' = pre.likes

C9_Reads(P, L) ==
  [feed |-> [x \in Users \X FeedInputs |->
               [posts |-> feedFindMany(P, L, x[1], x[2]),
                postCount |-> feedCount(P, x[1], x[2])]],
   detail |-> [x \in Users \X Ids |-> detail(P, L, x[1], x[2])],
   search |-> [q \in Queries |-> searchFindMany(P, q)]]

\* C9: for a visible post, hide followed by unhide by an admin with nothing
\* in between returns the store to its pre-hide state: every field of the
\* post and its likes are unchanged by both calls and hidden is false again,
\* so feed, detail and search answer every caller as before the hide.
C9_Step ==
  \A id \in Ids :
    /\ (Hide("admin", id) /\ id \in DOMAIN posts) =>
         /\ posts' = [posts EXCEPT ![id].hidden = TRUE]
         /\ likes' = likes
    /\ (/\ Returned("hide")
        /\ last.outcome.kind = "ok"
        /\ last.args.id = id
        /\ ~pre.posts[id].hidden
        /\ Unhide("admin", id)) =>
         /\ last'.outcome = Ok([id |-> id])
         /\ posts' = pre.posts
         /\ likes' = pre.likes
         /\ ~posts'[id].hidden
         /\ C9_Reads(posts', likes') = C9_Reads(pre.posts, pre.likes)

C9_HideUnhideRoundTrip == [][C9_Step]_vars

\* an unhide undid the hide of a visible post
C9_Witness ==
  /\ Returned("unhide")
  /\ last.outcome.kind = "ok"
  /\ pre.posts[last.args.id].hidden
  /\ ~posts[last.args.id].hidden
  /\ C9_Reads(posts, likes) # C9_Reads(pre.posts, pre.likes)

C11_Passes(p, c, i) ==
  /\ (i.authorId = None \/ p.authorId = i.authorId[1])
  /\ (c = "admin" \/ ~p.hidden)

C11_Page(P, c, i, out) ==
  /\ Len(out.posts) <= (IF i.take = None THEN 50 ELSE i.take[1])
  /\ \A k \in 1..Len(out.posts) :
       /\ out.posts[k].id \in DOMAIN P
       /\ C11_Passes(P[out.posts[k].id], c, i)
       /\ out.posts[k].createdAt = P[out.posts[k].id].createdAt
  /\ \A k, l \in 1..Len(out.posts) :
       k < l => out.posts[k].createdAt > out.posts[l].createdAt
  /\ out.postCount = Cardinality({id \in DOMAIN P : C11_Passes(P[id], c, i)})

\* C11: with no concurrent writes, feed returns at most take posts (50 when
\* take is omitted), ordered by createdAt descending, all satisfying the
\* filter, and postCount is the number of all stored posts satisfying that
\* filter, whatever take and skip are.
C11_FeedPage ==
  (/\ Returned("feed")
   /\ last.outcome.kind = "ok"
   /\ last.outcome.value.posts =
        feedFindMany(pre.posts, pre.likes, last.caller, last.args.input)) =>
    C11_Page(pre.posts, last.caller, last.args.input, last.outcome.value)

\* a page of one post, cut by take and skip out of two that pass the filter
C11_Witness ==
  /\ Returned("feed")
  /\ last.outcome.kind = "ok"
  /\ last.args.input.take = Some(1)
  /\ last.args.input.skip = Some(1)
  /\ Len(last.outcome.value.posts) = 1
  /\ last.outcome.value.postCount = 2
  /\ last.outcome.value.posts[1].id = 1

C12_Has(text, q) == q \in {text[k] : k \in 1..Len(text)}

C12_Eligible(P, q) ==
  {id \in DOMAIN P : ~P[id].hidden /\ (C12_Has(P[id].title, q) \/ C12_Has(P[id].content, q))}

C12_Found(P, q, found) ==
  /\ Cardinality(found) <= 10
  /\ \A r \in found : r.id \in C12_Eligible(P, q) /\ r.title = P[r.id].title
  /\ Cardinality(C12_Eligible(P, q)) <= 10 =>
       \A id \in C12_Eligible(P, q) : \E r \in found : r.id = id

C17_Refused ==
  /\ last.outcome.kind = "error"
  /\ last.outcome.code = "BAD_REQUEST"
  /\ posts = pre.posts
  /\ likes = pre.likes

C17_ValidationFirst ==
  /\ (Returned("add") /\ (last.args.input.title = <<>> \/ last.args.input.content = <<>>))
       => C17_Refused
  /\ (Returned("edit") /\ (last.args.data.title = <<>> \/ last.args.data.content = <<>>))
       => C17_Refused
  /\ (Returned("search") /\ last.args.query = "") => C17_Refused
  /\ (Returned("feed") /\ last.args.input.take # None
        /\ (last.args.input.take[1] < 1 \/ last.args.input.take[1] > 50))
       => C17_Refused
  /\ \A id \in DOMAIN posts : posts[id].title # <<>> /\ posts[id].content # <<>>

\* an edit with an empty title was refused as invalid, not as forbidden,
\* though its caller does not own the post
C17_Witness ==
  /\ Returned("edit")
  /\ last.args.data.title = <<>>
  /\ last.outcome.kind = "error"
  /\ last.outcome.code = "BAD_REQUEST"
  /\ last.args.id \in DOMAIN posts
  /\ posts[last.args.id].authorId # last.caller

\* C18 (as stated): for a caller who is neither admin nor author, every
\* operation answers for the id of a hidden post what it answers for an id
\* with no post: feed, detail, search, edit, delete, like, unlike, hide and
\* unhide give the same outcome on the store and on the store without the post.
C18_Same(P, L, c, h) ==
  LET Q == Remove(P, h)
      M == CascadeLikes(L, h)
  IN  /\ \A i \in FeedInputs :
           /\ feedFindMany(P, L, c, i) = feedFindMany(Q, M, c, i)
           /\ feedCount(P, c, i) = feedCount(Q, c, i)
      /\ detail(P, L, c, h) = detail(Q, M, c, h)
      /\ \A q \in Queries : searchFindMany(P, q) = searchFindMany(Q, q)
      /\ editDenied(P, h, c) = editDenied(Q, h, c)
      /\ deleteDenied(P, h, c) = deleteDenied(Q, h, c)
      /\ hideDenied(c) /\ unhideDenied(c)
      /\ likedPostsCreate(P, L, h, c).outcome = likedPostsCreate(Q, M, h, c).outcome
      /\ likedPostsDelete(L, h, c).outcome = likedPostsDelete(M, h, c).outcome

C18_HiddenLikeMissing ==
  \A c \in Users, h \in DOMAIN posts :
    (~isUserAdmin(c) /\ posts[h].hidden /\ posts[h].authorId # c)
      => C18_Same(posts, likes, c, h)

\* C19: when an edit and a delete of the author race on one post, the post
\* never exists again once the delete has written: an id that was given out
\* and has no post has none after any step, an edit whose ownership check
\* passed before the delete fails at its write with the store's error and
\* writes nothing, and so does a delete that lost against another delete.
C19_Gone(id) == id < nextId /\ id \notin DOMAIN posts

C19_Step ==
  /\ \A id \in Ids : C19_Gone(id) => id \notin DOMAIN posts'
  /\ \A r \in Waiting("edit") \cup Waiting("delete") :
       (Resume(r) /\ C19_Gone(r.id)) =>
         /\ last'.op = r.op
         /\ last'.outcome.kind = "error"
         /\ last'.outcome = PrismaError("P2025")
         /\ posts' = posts
         /\ likes' = likes

C19_DeleteWins == [][C19_Step]_vars

\* an edit that passed its check returned the store's error for a post
\* deleted meanwhile
C19_Witness ==
  /\ Returned("edit")
  /\ last.outcome.kind = "error"
  /\ last.outcome = PrismaError("P2025")
  /\ last.args.id < nextId
  /\ last.args.id \notin DOMAIN posts

\* ======================================================== markdownToHtml
\* every markdown text of at most MaxLen tokens
RECURSIVE SeqsUpTo(_, _)
SeqsUpTo(S, n) ==
  IF n = 0 THEN {<<>>}
  ELSE LET shorter == SeqsUpTo(S, n - 1)
       IN  shorter \cup {Append(t, x) : t \in {u \in shorter : Len(u) = n - 1}, x \in S}

MarkdownTokens == {"cat", "nl", "<script>", "onclick="}

InitRender ==
  /\ RouterInit
  /\ \E md \in SeqsUpTo(MarkdownTokens, MaxLen) :
       ed = [view |-> "render", markdown |-> md, html |-> None]

Render ==
  /\ ed.html = None
  /\ ed' = [ed EXCEPT !.html = Some(markdownToHtml(ed.markdown))]
  /\ UNCHANGED routerVars

NextRender == Render

SpecRender == InitRender /\ [][NextRender]_vars

\* C16: for every input the output of markdownToHtml holds no <script>
\* element and no on* event-handler attribute, also when the input embeds
\* them in markdown that is otherwise valid.
C16_Forbidden == {"<script>", "onclick="}

C16_NoScriptNoHandler ==
  ed.html # None =>
    \A i \in 1..Len(ed.html[1]) : ed.html[1][i] \notin C16_Forbidden

\* a text with a script element and a handler around a word was rendered
C16_Witness ==
  /\ ed.html # None
  /\ \E i, j, k \in 1..Len(ed.markdown) :
       /\ ed.markdown[i] = "<script>"
       /\ ed.markdown[j] = "onclick="
       /\ ed.markdown[k] = "cat"
  /\ \E i \in 1..Len(ed.html[1]) : ed.html[1][i] = "cat"

\* ===================================================== getSuggestionData
\* a text is its sequence of characters
Whitespace == {" ", "nl"}

Chars == {"a", "@", ":"} \cup Whitespace

Examples ==
  { <<"h", "e", "l", "l", "o", " ", "@", "a", "l">>,
    <<"t", "y", "p", "e", " ", ":", "s", "m">>,
    <<"n", "o", " ", "t", "r", "i", "g", "g", "e", "r", " ", "h", "e", "r", "e">> }

\* String.prototype.slice(start) and slice(0, end), offsets from 0
sliceFrom(text, start) == SubSeq(text, start + 1, Len(text))

sliceTo(text, end) == SubSeq(text, 1, end)

\* String.prototype.split(/\s/)
RECURSIVE split(_)
split(text) ==
  IF \A i \in 1..Len(text) : text[i] \notin Whitespace THEN <<text>>
  ELSE LET i == CHOOSE k \in 1..Len(text) :
                  /\ text[k] \in Whitespace
                  /\ \A j \in 1..(k - 1) : text[j] \notin Whitespace
       IN  <<sliceTo(text, i - 1)>> \o split(sliceFrom(text, i))

endsWith(text, suffix) ==
  /\ Len(suffix) <= Len(text)
  /\ sliceFrom(text, Len(text) - Len(suffix)) = suffix

\* text[idx]: undefined outside the text
charAt(text, idx) ==
  IF idx >= 0 /\ idx < Len(text) THEN text[idx + 1] ELSE "undefined"

lastToken(text) == LET tokens == split(text) IN tokens[Len(tokens)]

\* the character before the word taken for the trigger
triggerIdx_BeforeWord(text) ==
  IF endsWith(text, lastToken(text))
  THEN Len(text) - Len(lastToken(text)) - 1
  ELSE -1

triggerIdx(text) ==
  IF endsWith(text, lastToken(text))
  THEN Len(text) - Len(lastToken(text))
  ELSE -1

getSuggestionData(value, selectionStart) ==
  LET positionIndex == selectionStart
      textBeforeCaret == sliceTo(value, positionIndex)
      maybeTrigger == charAt(textBeforeCaret, triggerIdx(textBeforeCaret))
      mentionKeystrokeTriggered == maybeTrigger = "@"
      emojiKeystrokeTriggered == maybeTrigger = ":"
  IN  [keystrokeTriggered |-> mentionKeystrokeTriggered \/ emojiKeystrokeTriggered,
       triggerIdx |-> triggerIdx(textBeforeCaret),
       type |-> IF mentionKeystrokeTriggered THEN "mention" ELSE "emoji",
       query |-> sliceFrom(textBeforeCaret, triggerIdx(textBeforeCaret) + 1)]

InitSuggest ==
  /\ RouterInit
  /\ \E value \in SeqsUpTo(Chars, MaxLen) \cup Examples :
       \E selectionStart \in 0..Len(value) :
         ed = [view |-> "suggest", value |-> value,
               selectionStart |-> selectionStart, data |-> None]

GetSuggestionData ==
  /\ ed.data = None
  /\ ed' = [ed EXCEPT !.data = Some(getSuggestionData(ed.value, ed.selectionStart))]
  /\ UNCHANGED routerVars

NextSuggest == GetSuggestionData

SpecSuggest == InitSuggest /\ [][NextSuggest]_vars

\* C13: for every text and caret, the word is the text between the last
\* whitespace before the caret (or the start) and the caret; a trigger is
\* active iff the word begins with '@' (mention) or ':' (emoji); triggerIdx
\* is the offset of the word's first character and query the text from
\* triggerIdx + 1 to the caret. "hello @al" at its end gives mention, "al",
\* 6; "no trigger here" gives no trigger.
C13_WordStart(before) ==
  LET spaces == {i \in 1..Len(before) : before[i] \in {" ", "nl"}}
  IN  IF spaces = {} THEN 0 ELSE CHOOSE i \in spaces : \A j \in spaces : j <= i

C13_Holds(value, caret, d) ==
  LET before == SubSeq(value, 1, caret)
      start == C13_WordStart(before)
      word == SubSeq(before, start + 1, caret)
      begins(c) == Len(word) >= 1 /\ word[1] = c
  IN  /\ d.keystrokeTriggered <=> (begins("@") \/ begins(":"))
      /\ begins("@") => d.type = "mention"
      /\ begins(":") => d.type = "emoji"
      /\ d.triggerIdx = start
      /\ d.query = SubSeq(before, start + 2, caret)

C13_TriggerAtWordStart ==
  ed.data # None =>
    /\ C13_Holds(ed.value, ed.selectionStart, ed.data[1])
    /\ (ed.value = <<"h", "e", "l", "l", "o", " ", "@", "a", "l">>
          /\ ed.selectionStart = 9) =>
         ed.data[1] = [keystrokeTriggered |-> TRUE, triggerIdx |-> 6,
                       type |-> "mention", query |-> <<"a", "l">>]
    /\ (ed.value = <<"n", "o", " ", "t", "r", "i", "g", "g", "e", "r", " ",
                     "h", "e", "r", "e">>
          /\ ed.selectionStart = 15) => ~ed.data[1].keystrokeTriggered

\* the mention after "hello " was found
C13_Witness ==
  /\ ed.data # None
  /\ ed.value = <<"h", "e", "l", "l", "o", " ", "@", "a", "l">>
  /\ ed.selectionStart = 9
  /\ ed.data[1].keystrokeTriggered
  /\ ed.data[1].triggerIdx = 6

\* ============================================= uploadImageCommandHandler
\* The textarea's value is its sequence of lines, a line a sequence of text
\* pieces.  A file name is a sequence of pieces too: a name may hold the
\* pieces the placeholder is made of, or a replacement pattern of
\* String.prototype.replace.
PlaceholderOpen == "![Uploading "

PlaceholderClose == "...]()"

FileNames ==
  { <<"cat.png">>,
    <<"dog.png">>,
    <<"$&">>,
    <<"cat.png", PlaceholderClose, PlaceholderOpen, "cat.png">> }

Batches == SeqsUpTo(FileNames, MaxFiles) \ {<<>>}

InitialValues == { <<<<"hello">>>>, <<<<"hello">>, <<"world">>>> }

ErrorMessages == {"Network Error", "File too large"}

\* what the storage provider resolves with
uploadImage(name) ==
  { [url |-> <<"https://img.example/1">>, width |-> 101,
     originalFilename |-> name, dpi |-> dpi] : dpi \in {None, Some(72), Some(144)} }

\* `![Uploading ${file.name}...]()`
placeholderOf(name) == <<PlaceholderOpen>> \o name \o <<PlaceholderClose>>

\* Math.round(x / 2) of a width in pixels
roundHalf(x) == (x + 1) \div 2

\* `<img width="..." alt="..." src="...">`
imgOf(uploadedImage) ==
  LET width == IF uploadedImage.dpi # None /\ uploadedImage.dpi[1] >= 144
               THEN roundHalf(uploadedImage.width)
               ELSE uploadedImage.width
  IN  <<"<img width=\"", ToString(width), "\" alt=\"">>
        \o uploadedImage.originalFilename
        \o <<"\" src=\"">> \o uploadedImage.url \o <<"\">">>

\* Cursor.replaceLine
replaceLine(value, lineNumber, content) == [value EXCEPT ![lineNumber] = content]

\* offset of the first occurrence of pattern in a line, 0 when there is none
indexOf(line, pattern) ==
  LET at == {i \in 1..(Len(line) - Len(pattern) + 1) :
               SubSeq(line, i, i + Len(pattern) - 1) = pattern}
  IN  IF at = {} THEN 0 ELSE CHOOSE i \in at : \A j \in at : i <= j

\* the replacement text with "$&" standing for the matched text
RECURSIVE getSubstitution(_, _)
getSubstitution(matched, replacement) ==
  IF replacement = <<>> THEN <<>>
  ELSE (IF Head(replacement) = "$&" THEN matched ELSE <<Head(replacement)>>)
         \o getSubstitution(matched, Tail(replacement))

\* String.prototype.replace with a string pattern: the first occurrence only
stringReplace(value, pattern, replacement) ==
  LET hits == {n \in 1..Len(value) : indexOf(value[n], pattern) > 0}
  IN  IF hits = {} THEN value
      ELSE LET n == CHOOSE k \in hits : \A j \in hits : k <= j
               i == indexOf(value[n], pattern)
           IN  [value EXCEPT ![n] =
                  SubSeq(value[n], 1, i - 1)
                    \o getSubstitution(pattern, replacement)
                    \o SubSeq(value[n], i + Len(pattern), Len(value[n]))]

replacePlaceholder(value, placeholder, replaceWith) ==
  stringReplace(value, placeholder, replaceWith)

\* the synchronous part of files.forEach: every callback runs up to its
\* first await, so every file writes its placeholder to the same line
RECURSIVE forEachReplaceLine(_, _, _)
forEachReplaceLine(value, lineNumber, files) ==
  IF files = <<>> THEN value
  ELSE forEachReplaceLine(replaceLine(value, lineNumber, placeholderOf(Head(files))),
                          lineNumber, Tail(files))

InitUpload ==
  /\ RouterInit
  /\ \E value \in InitialValues, files \in Batches :
       \E line \in 1..Len(value) :
         ed = [view |-> "upload", value |-> value, initial |-> value,
               line |-> line, files |-> files,
               task |-> [i \in 1..Len(files) |-> "idle"],
               tries |-> [i \in 1..Len(files) |-> 0],
               calls |-> [i \in 1..Len(files) |-> 0],
               uploaded |-> [i \in 1..Len(files) |-> None],
               toasts |-> <<>>]

\* uploadImageCommandHandler up to its return
UploadImageCommandHandler ==
  /\ \A i \in 1..Len(ed.files) : ed.task[i] = "idle"
  /\ ed' = [ed EXCEPT
       !.value = forEachReplaceLine(ed.value, ed.line, ed.files),
       !.task = [i \in 1..Len(ed.files) |-> "import"],
       !.tries = [i \in 1..Len(ed.files) |-> 1]]
  /\ UNCHANGED routerVars

\* the catch block
Caught(i, message) ==
  [ed EXCEPT
     !.value = replacePlaceholder(ed.value, placeholderOf(ed.files[i]), <<>>),
     !.toasts = Append(ed.toasts, <<"Error uploading image: ", message>>),
     !.task[i] = "failed"]

\* the provider's module is loaded and uploadImage is called
ImportResolved(i) ==
  /\ ed.task[i] = "import"
  /\ ed' = [ed EXCEPT !.task[i] = "upload", !.calls[i] = @ + 1]
  /\ UNCHANGED routerVars

ImportRejected(i, message) ==
  /\ ed.task[i] = "import"
  /\ ed' = Caught(i, message)
  /\ UNCHANGED routerVars

UploadResolved(i, uploadedImage) ==
  /\ ed.task[i] = "upload"
  /\ ed' = [ed EXCEPT
       !.value = replacePlaceholder(ed.value, placeholderOf(ed.files[i]),
                                    imgOf(uploadedImage)),
       !.uploaded[i] = Some(uploadedImage),
       !.task[i] = "done"]
  /\ UNCHANGED routerVars

UploadRejected(i, message) ==
  /\ ed.task[i] = "upload"
  /\ ed' = Caught(i, message)
  /\ UNCHANGED routerVars

NextUpload ==
  \/ UploadImageCommandHandler
  \/ \E i \in 1..Len(ed.files) : ImportResolved(i)
  \/ \E i \in 1..Len(ed.files), message \in ErrorMessages : ImportRejected(i, message)
  \/ \E i \in 1..Len(ed.files) :
       \E u \in uploadImage(ed.files[i]) : UploadResolved(i, u)
  \/ \E i \in 1..Len(ed.files), message \in ErrorMessages : UploadRejected(i, message)

SpecUpload == InitUpload /\ [][NextUpload]_vars

\* every upload of the batch has resolved or rejected
Settled ==
  \A i \in 1..Len(ed.files) : ed.task[i] \in {"done", "failed"}

\* the text holds the piece sequence somewhere in a line
Occurs(value, pieces) ==
  \E n \in 1..Len(value) :
    \E k \in 1..(Len(value[n]) - Len(pieces) + 1) :
      SubSeq(value[n], k, k + Len(pieces) - 1) = pieces

\* C14 (as stated): for the upload of a single file named F, the current
\* line is the placeholder `![Uploading F...]()` from the handler's return
\* until the upload settles; on success the placeholder has become an <img>
\* tag whose alt is the file name and whose src is the returned URL; on
\* failure it has become empty text and one error notification carries the
\* reason; the upload is tried once and never again.
C14_SingleFileLifecycle ==
  (Len(ed.files) = 1 /\ ed.task[1] # "idle") =>
    LET F == ed.files[1]
        line == ed.value[ed.line]
    IN  /\ ed.task[1] \in {"import", "upload"} =>
             line = <<"![Uploading ">> \o F \o <<"...]()">>
        /\ ed.task[1] = "done" =>
             /\ Len(line) >= 2
             /\ line[1] = "<img width=\""
             /\ SubSeq(line, 3, Len(line)) =
                  <<"\" alt=\"">> \o F \o <<"\" src=\"">>
                    \o ed.uploaded[1][1].url \o <<"\">">>
        /\ ed.task[1] = "failed" =>
             /\ line = <<>>
             /\ Len(ed.toasts) = 1
             /\ ed.toasts[1][1] = "Error uploading image: "
             /\ ed.toasts[1][2] \in ErrorMessages
        /\ ed.task[1] # "failed" => ed.toasts = <<>>
        /\ ed.tries[1] = 1
        /\ ed.calls[1] <= 1
        /\ \A n \in 1..Len(ed.value) : n # ed.line => ed.value[n] = ed.initial[n]

\* C15 (as stated): for a batch of two or more files with pairwise distinct
\* names dropped at one line, whatever the order of completions, every file
\* whose upload succeeded has its own <img> tag in the text once all have
\* settled.
C15_NoCollision ==
  LET n == Len(ed.files)
  IN  (/\ n >= 2
       /\ \A i, j \in 1..n : i # j => ed.files[i] # ed.files[j]
       /\ Settled)
        => \A i \in 1..n :
             ed.task[i] = "done" => Occurs(ed.value, imgOf(ed.uploaded[i][1]))

\* C20 (as stated): for any batch, names shared or not, and any order of
\* completions, successes and failures, once every upload has settled the
\* text holds no `![Uploading ...]()` placeholder.
C20_NoDanglingPlaceholder ==
  Settled =>
    \A name \in FileNames :
      ~Occurs(ed.value, <<"![Uploading ">> \o name \o <<"...]()">>)

====
